---- MODULE Spec2Model ----
(***************************************************************************)
(* Model of scripts/gp8413_homeassistant.py: the GP8413 light controller,  *)
(* its fade worker threads, the MQTT command path and the signal handler.  *)
(*                                                                         *)
(* Voltages are fixed-point integers in units of 1/254 V ("ticks"), the    *)
(* unit in which brightness_to_voltage is exact: 1.0 V = 254 ticks.        *)
(* Interpolated values are truncated to a whole tick where the code has a  *)
(* float.  Time is not a variable: a loop iteration of a worker is one     *)
(* 20 ms period, and the timeouts are guards on what an iteration can do   *)
(* within them.  A critical section of a worker (take the lock, write,     *)
(* release) is one step; WWriteHang is the step in which the device write  *)
(* inside it never returns, WWriteFail the one in which it raises.  The    *)
(* locals of a finished thread are reset.                                  *)
(*                                                                         *)
(* Specifications: Spec is the whole program with well-formed commands;    *)
(* HangSpec and FailSpec add a device write that hangs or raises; CmdSpec  *)
(* is the command path (on_message, set_light_state, _publish_state) with  *)
(* any payload; RampSpec is one ramp from any start to any target; MapSpec *)
(* is brightness_to_voltage alone.                                         *)
(***************************************************************************)
EXTENDS Integers, FiniteSets, Sequences, TLC

\* ------------------------------------------------------------------ bounds
MaxCommands == 2            \* MQTT commands delivered in one run
FadeDurationMs == 100       \* --fade-duration, in ms (0.1 s)
MaxMessages == 3            \* MQTT payloads delivered in one run of CmdSpec
LongFadeMs == 10000         \* a --fade-duration that reaches the upper clamp

\* --------------------------------------------------------------- constants
TicksPerVolt == 254         \* fixed-point scale (the 254.0 of line 83)
RESOLUTION_15_BIT == 32767  \* DFRobot_GP8413.RESOLUTION_15_BIT
UpdateIntervalMs == 20      \* update_interval = 0.02
MinFadeMs == 50             \* lower clamp 0.05
MaxFadeMs == 5000           \* upper clamp 5.0
GraceMs == 100              \* time.sleep(0.1) of the signal handler
DefaultFadeMs == 500        \* fade_duration: float = 0.5

Spans == {5 * TicksPerVolt, 10 * TicksPerVolt}   \* voltage_range 5.0 / 10.0
BrightnessArgs == {1, 255}  \* brightness values of the ON commands delivered

Free == 0                   \* _fade_lock not held
Main == -1                  \* the thread running loop_forever / the handler
NoWrite == -1               \* no counts passed to the DAC yet
Workers == 1..((IF MaxCommands >= MaxMessages THEN MaxCommands
                ELSE MaxMessages) + 1)

VARIABLES
  span,             \* self.voltage_range, in ticks
  fade_duration,    \* self.fade_duration, in ms
  is_on,            \* self.is_on
  brightness,       \* self.brightness
  current_voltage,  \* self._current_voltage
  target_voltage,   \* self._target_voltage
  fade_lock,        \* holder of self._fade_lock: Free, Main or a worker
  fade_stop_event,  \* self._fade_stop_event.is_set()
  fade_thread,      \* self._fade_thread: 0 for None, else the worker
  mpc,              \* position of the main thread
  inHandler,        \* the main thread is inside signal_handler
  sfArg,            \* argument target_voltage of the running _start_fade
  ncmd,             \* commands delivered so far
  nworkers,         \* threads created so far
  wpc,              \* position of each worker thread
  wstart,           \* start_voltage of each worker
  wtarget,          \* target_voltage local of each worker
  wnum,             \* num_steps of each worker
  wstep,            \* loop variable step of each worker
  wcreatedAt,       \* local current_voltage of the _start_fade that started it
  sleepBase,        \* wstep of each worker when the handler's sleep began
  dac,              \* last counts passed to set_dac_out_voltage
  lastCall,         \* outcome of the last _start_fade that ran to its end
  payload,          \* msg.payload of the last message given to on_message
  published,        \* lines of the last payload published on the state topic
  npub,             \* state publishes of set_light_state so far
  lastKnown         \* history: the last brightness above 0 the light had

vars == <<span, fade_duration, is_on, brightness, current_voltage,
          target_voltage, fade_lock, fade_stop_event, fade_thread, mpc,
          inHandler, sfArg, ncmd, nworkers, wpc, wstart, wtarget, wnum, wstep,
          wcreatedAt, sleepBase, dac, lastCall, payload, published, npub,
          lastKnown>>

msgVars == <<payload, published, npub, lastKnown>>
mainVars == <<is_on, brightness, mpc, inHandler, sfArg, ncmd>>
workerVars == <<wpc, wstart, wtarget, wnum, wstep>>

\* ----------------------------------------------------------- pure helpers
Abs(x) == IF x < 0 THEN -x ELSE x
Max(a, b) == IF a >= b THEN a ELSE b
Min(a, b) == IF a <= b THEN a ELSE b

\* x / y truncated toward zero, y > 0
TruncDiv(x, y) == IF x >= 0 THEN x \div y ELSE -((-x) \div y)

\* Python round(num / den): nearest integer, ties to even; num >= 0, den > 0
RoundHalfEven(num, den) ==
  LET q == num \div den
      r == num % den
  IN  IF 2 * r < den THEN q
      ELSE IF 2 * r > den THEN q + 1
      ELSE IF q % 2 = 0 THEN q ELSE q + 1

\* brightness_to_voltage with the ratio taken as brightness / 255
brightness_to_voltage_ratio255(sp, b) ==
  IF b = 0 THEN 0
  ELSE TicksPerVolt + ((sp - TicksPerVolt) * b) \div 255

\* brightness_to_voltage: 0 -> 0 V, 1..255 -> 1 V .. max voltage, linear
brightness_to_voltage(sp, b) ==
  IF b = 0 THEN 0
  ELSE LET min_voltage == TicksPerVolt
           max_voltage == sp
       IN  min_voltage + ((max_voltage - min_voltage) * (b - 1)) \div 254

\* _update_dac without the clamp of the undefined range
SnapVoltageNone(v) == v

\* the undefined-range clamp of _update_dac
SnapVoltage(v) ==
  IF 0 < v /\ v < TicksPerVolt
    THEN (IF 2 * v < TicksPerVolt THEN 0 ELSE TicksPerVolt)
    ELSE v

\* the counts _update_dac passes to set_dac_out_voltage for a voltage
UpdateDacCounts(sp, voltage) ==
  LET v == SnapVoltage(voltage)
      max_counts == RESOLUTION_15_BIT
      raw_value == IF v < 0 THEN -RoundHalfEven((-v) * max_counts, sp)
                   ELSE RoundHalfEven(v * max_counts, sp)
  IN  Max(0, Min(raw_value, max_counts))

\* num_steps with the quotient rounded to the nearest integer
NumStepsRound(sp, voltage_diff) ==
  LET durNum == fade_duration * Abs(voltage_diff)
      clamped == Max(MinFadeMs * sp, Min(MaxFadeMs * sp, durNum))
  IN  Max(1, RoundHalfEven(clamped, UpdateIntervalMs * sp))

\* num_steps of _fade_worker for a voltage difference
NumSteps(sp, voltage_diff) ==
  LET durNum == fade_duration * Abs(voltage_diff)       \* duration * span
      clamped == Max(MinFadeMs * sp, Min(MaxFadeMs * sp, durNum))
  IN  Max(1, clamped \div (UpdateIntervalMs * sp))

\* start_voltage + voltage_diff * (step / num_steps)
Interpolate(start, diff, step, n) == start + TruncDiv(diff * step, n)

\* abs(current_voltage - target_voltage) < 0.01
AtTarget(cur, tgt) == 100 * Abs(cur - tgt) < TicksPerVolt

\* Thread.is_alive(): started and run() not yet returned
IsAlive(w) == w # 0 /\ wpc[w] \notin {"none", "dead"}
\* the thread is at a "with self._fade_lock"
WaitsForLock(w) == wpc[w] \in {"init", "write", "final"}
\* the thread has a write to _current_voltage and the DAC ahead of it
CanWrite(w) == wpc[w] \in {"init", "check", "write", "final"}
\* the thread left its loop through the break of line 166
Cancelled(w) == wpc[w] = "final" /\ wstep[w] <= wnum[w]
\* the thread left its loop because the range was exhausted
Completed(w) == wpc[w] = "final" /\ wstep[w] > wnum[w]

\* ---------------------------------------------------------- MQTT payloads
\* A payload after decode().strip(): kind "int" when int(payload) succeeds,
\* with n its value; else kind "state" with token the first line, and line
\* telling whether a second line is absent, not an integer ("text"), or an
\* integer, then with n its value.
NoPayload == [kind |-> "none", token |-> "", line |-> "absent", n |-> 0]
BareInt(n) == [kind |-> "int", token |-> "", line |-> "absent", n |-> n]
StateCmd(token, line, n) ==
  [kind |-> "state", token |-> token, line |-> line, n |-> n]

BareInts == {-3, 0, 1, 128, 300}
StateTokens == {"ON", "OFF", "on", "off", "TOGGLE"}
BrightnessLines == {-3, 0, 128, 300}
\* the payloads delivered in CmdSpec
Payloads ==
  {BareInt(n) : n \in BareInts}
    \cup {StateCmd(t, l, 0) : t \in StateTokens, l \in {"absent", "text"}}
    \cup {StateCmd(t, "int", n) : t \in StateTokens, n \in BrightnessLines}
\* the payloads delivered in Spec
CommandPayloads ==
  {StateCmd("ON", "int", b) : b \in BrightnessArgs} \cup {StateCmd("OFF", "absent", 0)}

\* str.upper() on the state tokens
Upper(t) == IF t = "on" THEN "ON" ELSE IF t = "off" THEN "OFF" ELSE t

\* ------------------------------------------------------------------- Init
Init ==
  /\ span \in Spans
  /\ fade_duration = FadeDurationMs
  /\ is_on = FALSE
  /\ brightness = 255
  /\ current_voltage = 0
  /\ target_voltage = 0
  /\ fade_lock = Free
  /\ fade_stop_event = FALSE
  /\ fade_thread = 0
  /\ mpc = "idle"
  /\ inHandler = FALSE
  /\ sfArg = 0
  /\ ncmd = 0
  /\ nworkers = 0
  /\ wpc = [w \in Workers |-> "none"]
  /\ wstart = [w \in Workers |-> 0]
  /\ wtarget = [w \in Workers |-> 0]
  /\ wnum = [w \in Workers |-> 0]
  /\ wstep = [w \in Workers |-> 0]
  /\ wcreatedAt = [w \in Workers |-> 0]
  /\ sleepBase = [w \in Workers |-> 0]
  /\ dac = NoWrite
  /\ lastCall = "none"
  /\ payload = NoPayload
  /\ published = <<>>
  /\ npub = 0
  /\ lastKnown = 255

\* ---------------------------------------------------- the command thread
NoBrightness == 9999        \* brightness=None

\* set_light_state, lines 88-94: the new is_on
NewIsOn(state, b) ==
  IF state = "ON" THEN TRUE ELSE IF state = "OFF" THEN FALSE ELSE is_on

\* set_light_state storing the brightness argument as it comes
NewBrightnessUnclamped(state, b) ==
  IF state = "ON"
    THEN (IF b # NoBrightness THEN b ELSE brightness)
    ELSE IF state = "OFF" THEN 0 ELSE brightness

\* set_light_state, lines 88-94: the new brightness
NewBrightness(state, b) ==
  IF state = "ON"
    THEN (IF b # NoBrightness THEN Max(0, Min(255, b)) ELSE brightness)
    ELSE IF state = "OFF" THEN 0 ELSE brightness

\* set_light_state up to its call of _start_fade (lines 88-103)
SetLightState(state, b) ==
  LET on == NewIsOn(state, b)
      br == NewBrightness(state, b)
  IN  /\ is_on' = on
      /\ brightness' = br
      /\ sfArg' = IF on /\ br > 0 THEN brightness_to_voltage(span, br) ELSE 0
      /\ lastKnown' = IF br > 0 THEN br ELSE lastKnown
      /\ mpc' = "sf_lock"

\* on_message with every bare integer, 0 too, taken as an ON command
MsgStateIntOn(p) ==
  IF p.kind = "int" THEN "ON"
  ELSE Upper(p.token)

\* on_message, lines 257-295: the state argument of its set_light_state call
MsgState(p) ==
  IF p.kind = "int" THEN (IF p.n = 0 THEN "OFF" ELSE "ON")
  ELSE Upper(p.token)

\* on_message with the default for ON taken from the last brightness above 0
MsgBrightnessLastKnown(p) ==
  IF p.kind = "int" THEN p.n
  ELSE IF p.line = "int" THEN p.n
  ELSE IF Upper(p.token) = "ON" THEN lastKnown
  ELSE 0

\* on_message, lines 257-295: the brightness argument of its set_light_state
\* call
MsgBrightness(p) ==
  IF p.kind = "int" THEN p.n
  ELSE IF p.line = "int" THEN p.n
  ELSE IF Upper(p.token) = "ON"
         THEN (IF brightness > 0 THEN brightness ELSE 255)
  ELSE 0

\* on_message for one payload, up to the _start_fade call of set_light_state
OnMessage(p) ==
  /\ mpc = "idle"
  /\ payload' = p
  /\ SetLightState(MsgState(p), MsgBrightness(p))
  /\ ncmd' = ncmd + 1
  /\ UNCHANGED <<span, fade_duration, current_voltage, target_voltage,
                 fade_lock, fade_stop_event, fade_thread, inHandler, nworkers,
                 wcreatedAt, sleepBase, dac, lastCall, published, npub>>
  /\ UNCHANGED workerVars

\* on_message delivers a command: ON with a brightness, or OFF
Command ==
  /\ ncmd < MaxCommands
  /\ \E p \in CommandPayloads : OnMessage(p)

\* on_message delivers any payload
Message ==
  /\ ncmd < MaxMessages
  /\ \E p \in Payloads : OnMessage(p)

\* _start_fade, lines 122-126: take the lock, set the stop event, and go to
\* the join when there is a live thread
SfLock ==
  /\ mpc = "sf_lock"
  /\ fade_lock = Free
  /\ fade_lock' = Main
  /\ fade_stop_event' = TRUE
  /\ mpc' = IF IsAlive(fade_thread) THEN "sf_join" ELSE "sf_update"
  /\ UNCHANGED <<span, fade_duration, is_on, brightness, current_voltage,
                 target_voltage, fade_thread, inHandler, sfArg, ncmd,
                 nworkers, wcreatedAt, sleepBase, dac, lastCall>>
  /\ UNCHANGED workerVars
  /\ UNCHANGED msgVars

\* join(timeout=0.1) returns because the thread has finished
SfJoinReturn ==
  /\ mpc = "sf_join"
  /\ ~IsAlive(fade_thread)
  /\ mpc' = "sf_update"
  /\ UNCHANGED <<span, fade_duration, is_on, brightness, current_voltage,
                 target_voltage, fade_lock, fade_stop_event, fade_thread,
                 inHandler, sfArg, ncmd, nworkers, wcreatedAt, sleepBase, dac,
                 lastCall>>
  /\ UNCHANGED workerVars
  /\ UNCHANGED msgVars

\* join(timeout=0.1) times out: within 0.1 s (five periods) a live worker has
\* left its sleep and is waiting for the lock this thread holds
SfJoinTimeout ==
  /\ mpc = "sf_join"
  /\ IsAlive(fade_thread)
  /\ WaitsForLock(fade_thread)
  /\ mpc' = "sf_update"
  /\ UNCHANGED <<span, fade_duration, is_on, brightness, current_voltage,
                 target_voltage, fade_lock, fade_stop_event, fade_thread,
                 inHandler, sfArg, ncmd, nworkers, wcreatedAt, sleepBase, dac,
                 lastCall>>
  /\ UNCHANGED workerVars
  /\ UNCHANGED msgVars

\* line 135 comparing the new target with the previous target instead of
\* the current voltage
StartsFadeVsTarget(cur, tgt) == ~AtTarget(target_voltage, tgt)

\* whether _start_fade starts a thread (line 135)
StartsFade(cur, tgt) == ~AtTarget(cur, tgt)

\* there was a _start_fade call before the running one
HasPrevCall == IF inHandler THEN ncmd >= 1 ELSE ncmd >= 2

\* what the running _start_fade is: a repeat of the previous target or a new
\* one, and whether it starts a thread
CallOutcome ==
  IF HasPrevCall /\ sfArg = target_voltage
    THEN (IF StartsFade(current_voltage, sfArg) THEN "repeat_start"
          ELSE "repeat_noop")
    ELSE (IF StartsFade(current_voltage, sfArg) THEN "new_start"
          ELSE "new_noop")

\* _publish_state: the lines of the payload for the state topic
StatePayload ==
  IF is_on /\ brightness > 0 THEN <<"ON", brightness>> ELSE <<"OFF">>

\* _start_fade, lines 129-143, then the rest of the caller: set_light_state
\* publishes and returns; in the handler the sleep of line 432 begins
SfUpdate ==
  /\ mpc = "sf_update"
  /\ target_voltage' = sfArg
  /\ lastCall' = CallOutcome
  /\ IF StartsFade(current_voltage, sfArg)
       THEN /\ fade_stop_event' = FALSE
            /\ nworkers' = nworkers + 1
            /\ fade_thread' = nworkers + 1
            /\ wpc' = [wpc EXCEPT ![nworkers + 1] = "init"]
            /\ wcreatedAt' = [wcreatedAt EXCEPT ![nworkers + 1] = current_voltage]
       ELSE UNCHANGED <<fade_stop_event, nworkers, fade_thread, wpc, wcreatedAt>>
  /\ fade_lock' = Free
  /\ mpc' = IF inHandler THEN "sh_sleep" ELSE "idle"
  /\ sleepBase' = IF inHandler THEN wstep ELSE sleepBase
  /\ published' = StatePayload
  /\ npub' = npub + 1
  /\ UNCHANGED <<span, fade_duration, is_on, brightness, current_voltage,
                 inHandler, sfArg, ncmd, wstart, wtarget, wnum, wstep, dac,
                 payload, lastKnown>>

\* ------------------------------------------------------ the fade workers
\* _fade_worker, lines 147-162: snapshot under the lock, compute num_steps
WInit(w) ==
  /\ wpc[w] = "init"
  /\ fade_lock = Free
  /\ wstart' = [wstart EXCEPT ![w] = current_voltage]
  /\ wtarget' = [wtarget EXCEPT ![w] = target_voltage]
  /\ wnum' = [wnum EXCEPT ![w] = NumSteps(span, target_voltage - current_voltage)]
  /\ wstep' = [wstep EXCEPT ![w] = 0]
  /\ wpc' = [wpc EXCEPT ![w] = "check"]
  /\ UNCHANGED <<span, fade_duration, current_voltage, target_voltage,
                 fade_lock, fade_stop_event, fade_thread, nworkers,
                 wcreatedAt, sleepBase, dac, lastCall>>
  /\ UNCHANGED mainVars
  /\ UNCHANGED msgVars

\* lines 164-166: the loop head; range exhausted, or the stop event is seen,
\* or the next iteration
WCheck(w) ==
  /\ wpc[w] = "check"
  /\ wpc' = [wpc EXCEPT ![w] =
               IF wstep[w] > wnum[w] \/ fade_stop_event THEN "final"
               ELSE "write"]
  /\ UNCHANGED <<span, fade_duration, current_voltage, target_voltage,
                 fade_lock, fade_stop_event, fade_thread, nworkers, wstart,
                 wtarget, wnum, wstep, wcreatedAt, sleepBase, dac, lastCall>>
  /\ UNCHANGED mainVars
  /\ UNCHANGED msgVars

\* the voltage a worker writes at its current step (lines 169-170)
StepVoltage(w) ==
  Interpolate(wstart[w], wtarget[w] - wstart[w], wstep[w], wnum[w])

\* lines 173-182: under the lock the interpolated write, then the sleep
WWrite(w) ==
  /\ wpc[w] = "write"
  /\ fade_lock = Free
  /\ current_voltage' = StepVoltage(w)
  /\ dac' = UpdateDacCounts(span, StepVoltage(w))
  /\ wstep' = [wstep EXCEPT ![w] = @ + 1]
  /\ wpc' = [wpc EXCEPT ![w] = "check"]
  /\ UNCHANGED <<span, fade_duration, target_voltage, fade_lock,
                 fade_stop_event, fade_thread, nworkers, wstart, wtarget,
                 wnum, wcreatedAt, sleepBase, lastCall>>
  /\ UNCHANGED mainVars
  /\ UNCHANGED msgVars

\* line 175: set_dac_out_voltage never returns; the thread keeps the lock
WWriteHang(w) ==
  /\ wpc[w] = "write"
  /\ fade_lock = Free
  /\ fade_lock' = w
  /\ current_voltage' = StepVoltage(w)
  /\ wpc' = [wpc EXCEPT ![w] = "hung"]
  /\ UNCHANGED <<span, fade_duration, target_voltage, fade_stop_event,
                 fade_thread, nworkers, wstart, wtarget, wnum, wstep,
                 wcreatedAt, sleepBase, dac, lastCall>>
  /\ UNCHANGED mainVars
  /\ UNCHANGED msgVars

\* line 175: set_dac_out_voltage raises after line 174 has stored the
\* interpolated value; the with block releases the lock, nothing in
\* _fade_worker catches the exception, and the thread ends with it
WWriteFail(w) ==
  /\ wpc[w] = "write"
  /\ fade_lock = Free
  /\ current_voltage' = StepVoltage(w)
  /\ wpc' = [wpc EXCEPT ![w] = "dead"]
  /\ wstart' = [wstart EXCEPT ![w] = 0]
  /\ wtarget' = [wtarget EXCEPT ![w] = 0]
  /\ wnum' = [wnum EXCEPT ![w] = 0]
  /\ wstep' = [wstep EXCEPT ![w] = 0]
  /\ wcreatedAt' = [wcreatedAt EXCEPT ![w] = 0]
  /\ sleepBase' = [sleepBase EXCEPT ![w] = 0]
  /\ UNCHANGED <<span, fade_duration, target_voltage, fade_lock,
                 fade_stop_event, fade_thread, nworkers, dac, lastCall>>
  /\ UNCHANGED mainVars
  /\ UNCHANGED msgVars

\* the write after the loop as one more interpolated step
FinalVoltageInterpolated(w) ==
  Interpolate(wstart[w], wtarget[w] - wstart[w], wstep[w], wnum[w])

\* the voltage of the write after the loop (lines 186-187)
FinalVoltage(w) == wtarget[w]

\* lines 185-187: under the lock the write after the loop, whichever way
\* the loop was left
WFinal(w) ==
  /\ wpc[w] = "final"
  /\ fade_lock = Free
  /\ current_voltage' = FinalVoltage(w)
  /\ dac' = UpdateDacCounts(span, FinalVoltage(w))
  /\ wpc' = [wpc EXCEPT ![w] = "exit"]
  /\ wstart' = [wstart EXCEPT ![w] = 0]
  /\ wtarget' = [wtarget EXCEPT ![w] = 0]
  /\ wnum' = [wnum EXCEPT ![w] = 0]
  /\ wstep' = [wstep EXCEPT ![w] = 0]
  /\ wcreatedAt' = [wcreatedAt EXCEPT ![w] = 0]
  /\ sleepBase' = [sleepBase EXCEPT ![w] = 0]
  /\ UNCHANGED <<span, fade_duration, target_voltage, fade_lock,
                 fade_stop_event, fade_thread, nworkers, lastCall>>
  /\ UNCHANGED mainVars
  /\ UNCHANGED msgVars

\* _fade_worker returns: the thread is no longer alive
WExit(w) ==
  /\ wpc[w] = "exit"
  /\ wpc' = [wpc EXCEPT ![w] = "dead"]
  /\ UNCHANGED <<span, fade_duration, current_voltage, target_voltage,
                 fade_lock, fade_stop_event, fade_thread, nworkers, wstart,
                 wtarget, wnum, wstep, wcreatedAt, sleepBase, dac, lastCall>>
  /\ UNCHANGED mainVars
  /\ UNCHANGED msgVars

\* ---------------------------------------------------- the signal handler
GraceSteps == GraceMs \div UpdateIntervalMs

\* SIGINT/SIGTERM: the handler runs on the main thread wherever that is,
\* and sets the stop event (line 426)
Signal ==
  /\ ~inHandler
  /\ mpc # "exited"
  /\ inHandler' = TRUE
  /\ fade_stop_event' = TRUE
  /\ mpc' = "sh_join"
  /\ UNCHANGED <<span, fade_duration, is_on, brightness, current_voltage,
                 target_voltage, fade_lock, fade_thread, sfArg, ncmd,
                 nworkers, wcreatedAt, sleepBase, dac, lastCall>>
  /\ UNCHANGED workerVars
  /\ UNCHANGED msgVars

\* lines 427-430: the join is over, set_light_state("OFF") is called
ShCallOff ==
  /\ SetLightState("OFF", NoBrightness)
  /\ UNCHANGED <<span, fade_duration, current_voltage, target_voltage,
                 fade_lock, fade_stop_event, fade_thread, inHandler, ncmd,
                 nworkers, wcreatedAt, sleepBase, dac, lastCall, payload,
                 published, npub>>
  /\ UNCHANGED workerVars

\* join(timeout=0.5) returns, or there is no live thread to join
ShJoinReturn ==
  /\ mpc = "sh_join"
  /\ ~IsAlive(fade_thread)
  /\ ShCallOff

\* join(timeout=0.5) times out: the thread is stuck in a device write, or
\* it waits for the lock, which the interrupted frame of this thread holds
ShJoinTimeout ==
  /\ mpc = "sh_join"
  /\ IsAlive(fade_thread)
  /\ \/ wpc[fade_thread] = "hung"
     \/ WaitsForLock(fade_thread) /\ fade_lock # Free
  /\ ShCallOff

\* a worker has had the 0.1 s of line 432: it is past its last write, or
\* it went through GraceSteps periods of its loop, or it cannot go on
HadGrace(w) ==
  \/ ~CanWrite(w)
  \/ wpc[w] \in {"check", "write"} /\ wstep[w] - sleepBase[w] >= GraceSteps
  \/ WaitsForLock(w) /\ fade_lock # Free

\* lines 432-434: the sleep is over, disconnect, sys.exit(0); the daemon
\* threads end with the process
Exit ==
  /\ mpc = "sh_sleep"
  /\ \A w \in Workers : HadGrace(w)
  /\ mpc' = "exited"
  /\ UNCHANGED <<span, fade_duration, is_on, brightness, current_voltage,
                 target_voltage, fade_lock, fade_stop_event, fade_thread,
                 inHandler, sfArg, ncmd, nworkers, wcreatedAt, sleepBase, dac,
                 lastCall>>
  /\ UNCHANGED workerVars
  /\ UNCHANGED msgVars

\* ------------------------------------------------------------------- Next
WorkerStep(w) ==
  /\ mpc # "exited"
  /\ \/ WInit(w)
     \/ WCheck(w)
     \/ WWrite(w)
     \/ WFinal(w)
     \/ WExit(w)

MainStep ==
  \/ SfLock
  \/ SfJoinReturn
  \/ SfJoinTimeout
  \/ SfUpdate
  \/ ShJoinReturn
  \/ ShJoinTimeout
  \/ Exit

Next ==
  \/ Command
  \/ Signal
  \/ MainStep
  \/ \E w \in Workers : WorkerStep(w)

Spec == Init /\ [][Next]_vars

\* the same with a device write that may hang
HangNext ==
  \/ Next
  \/ \E w \in Workers : mpc # "exited" /\ WWriteHang(w)

HangSpec == Init /\ [][HangNext]_vars

\* the same with a device write that may raise
FailNext ==
  \/ Next
  \/ \E w \in Workers : mpc # "exited" /\ WWriteFail(w)

FailSpec == Init /\ [][FailNext]_vars

\* the mapping applied to one brightness, for the claims about the function
MapApply ==
  /\ mpc = "idle"
  /\ \E b \in 0..255 :
       /\ brightness' = b
       /\ sfArg' = brightness_to_voltage(span, b)
  /\ mpc' = "mapped"
  /\ UNCHANGED <<span, fade_duration, is_on, current_voltage, target_voltage,
                 fade_lock, fade_stop_event, fade_thread, inHandler, ncmd,
                 nworkers, wcreatedAt, sleepBase, dac, lastCall>>
  /\ UNCHANGED workerVars
  /\ UNCHANGED msgVars

MapSpec == Init /\ [][MapApply]_vars

\* one ramp alone, for the claims about the path and the step count of a
\* ramp: _start_fade has just started a thread, with _current_voltage and
\* the target any two voltages 0.01 V or more apart, and the last command
\* was the bare brightness of that target
FadeDurations == {FadeDurationMs, DefaultFadeMs, LongFadeMs}
RampBrightness == {0, 1, 64, 128, 255}
RampStarts(sp) ==
  {brightness_to_voltage(sp, b) : b \in RampBrightness} \cup {TicksPerVolt \div 2}

RampInit ==
  /\ span \in Spans
  /\ fade_duration \in FadeDurations
  /\ brightness \in RampBrightness
  /\ is_on = (brightness > 0)
  /\ target_voltage = brightness_to_voltage(span, brightness)
  /\ sfArg = target_voltage
  /\ current_voltage \in RampStarts(span)
  /\ StartsFade(current_voltage, target_voltage)
  /\ dac = UpdateDacCounts(span, current_voltage)
  /\ fade_lock = Free
  /\ fade_stop_event = FALSE
  /\ fade_thread = 1
  /\ mpc = "idle"
  /\ inHandler = FALSE
  /\ ncmd = 1
  /\ nworkers = 1
  /\ wpc = [w \in Workers |-> IF w = 1 THEN "init" ELSE "none"]
  /\ wstart = [w \in Workers |-> 0]
  /\ wtarget = [w \in Workers |-> 0]
  /\ wnum = [w \in Workers |-> 0]
  /\ wstep = [w \in Workers |-> 0]
  /\ wcreatedAt = [w \in Workers |-> IF w = 1 THEN current_voltage ELSE 0]
  /\ sleepBase = [w \in Workers |-> 0]
  /\ lastCall = "new_start"
  /\ payload = BareInt(brightness)
  /\ published = StatePayload
  /\ npub = 1
  /\ lastKnown = IF brightness > 0 THEN brightness ELSE 255

RampNext == \E w \in Workers : WorkerStep(w)

RampSpec == RampInit /\ [][RampNext]_vars

\* the command path alone, for the claims about on_message, set_light_state
\* and _publish_state: any payload is delivered, and the threads that
\* _start_fade starts take no step; no step of a worker reads or writes
\* is_on, brightness, the argument of _start_fade or the published payload
CmdNext ==
  \/ Message
  \/ SfLock
  \/ SfJoinTimeout
  \/ SfUpdate

CmdSpec == Init /\ [][CmdNext]_vars

\* ----------------------------------------------------------------- claims
\* the counts of a voltage outside the undefined range: round(v / span * max)
CountsOf(v) == RoundHalfEven(v * RESOLUTION_15_BIT, span)
Quiescent == mpc = "idle" /\ \A w \in Workers : ~IsAlive(w)
\* the step of _start_fade that leaves its with block
SfUpdateStep == mpc = "sf_update" /\ fade_lock = Main /\ fade_lock' = Free

\* C1: newest wins.  Once the last request_target call has returned and every
\* worker has exited, _current_voltage is the target of that call and the
\* last counts written to the DAC are the counts of that target.
C1_NewestWins ==
  (Quiescent /\ ncmd >= 1) =>
    /\ current_voltage = target_voltage
    /\ dac \in {NoWrite, CountsOf(target_voltage)}

\* C2: at most one ramp worker at any instant: never two threads that can
\* still write to _current_voltage or the DAC.
C2_AtMostOneWorker == Cardinality({w \in Workers : CanWrite(w)}) <= 1

\* C3: a worker that has seen the stop event at the loop head writes nothing
\* more: its remaining step leaves _current_voltage and the DAC as they are.
C3_CancelledWritesNothing ==
  [][\A w \in Workers :
       (Cancelled(w) /\ wpc'[w] # wpc[w]) =>
         (current_voltage' = current_voltage /\ dac' = dac)]_vars

C5_ExactLanding ==
  [][\A w \in Workers :
       (Completed(w) /\ wpc'[w] = "exit") =>
         (current_voltage' = wtarget[w] /\ dac' = CountsOf(wtarget[w]))]_vars

C5_Witness ==
  /\ Quiescent /\ ~inHandler /\ ncmd = 1 /\ nworkers = 1
  /\ target_voltage > 0
  /\ current_voltage = target_voltage
  /\ dac = CountsOf(target_voltage)

C7_NoInvalidBand ==
  dac # NoWrite =>
    /\ dac \in 0..RESOLUTION_15_BIT
    /\ dac = 0 \/ dac >= CountsOf(TicksPerVolt)
    /\ (0 < current_voltage /\ 2 * current_voltage < TicksPerVolt) => dac = 0
    /\ (2 * current_voltage >= TicksPerVolt /\ current_voltage < TicksPerVolt)
         => dac = CountsOf(TicksPerVolt)

C7_Witness ==
  /\ 0 < current_voltage /\ 2 * current_voltage < TicksPerVolt
  /\ dac = 0

\* C8: the brightness mapping.  0 maps to 0 V, 1 to 1.0 V, 255 to the span,
\* b in 1..255 to 1.0 + (span - 1.0) * (b - 1) / 254, non-decreasing in b.
C8_Mapping ==
  mpc = "mapped" =>
    /\ brightness = 0 => sfArg = 0
    /\ brightness = 1 => sfArg = TicksPerVolt
    /\ brightness = 255 => sfArg = span
    /\ brightness >= 1 =>
         254 * sfArg = 254 * TicksPerVolt + (span - TicksPerVolt) * (brightness - 1)
    /\ brightness \in 1..254 => sfArg <= brightness_to_voltage(span, brightness + 1)

C8_Witness ==
  mpc = "mapped" /\ span = 10 * TicksPerVolt /\ brightness = 128 /\ sfArg = 1397

\* C9: a stuck worker cannot stall command processing: no request_target
\* call waits for the lock while a worker that makes no more progress
\* holds it.
C9_StuckWorkerNoStall ==
  \A w \in Workers :
    wpc[w] = "hung" => ~(mpc = "sf_lock" /\ ~inHandler /\ fade_lock = w)

\* C10: shutdown leaves the output off: when the process exits, the last
\* counts written to the DAC are zero and _current_voltage is 0.0.
C10_ShutdownOff ==
  mpc = "exited" => (current_voltage = 0 /\ dac \in {0, NoWrite})

\* C11: shutdown always terminates: the signal handler never waits for the
\* fade lock while the frame it interrupted holds that lock, a wait that
\* cannot end because the interrupted frame resumes only after the handler.
C11_ShutdownTerminates ==
  ~(inHandler /\ mpc = "sf_lock" /\ fade_lock = Main)

\* the step in which the device write of a loop iteration fails
WriteFailStep(w) == wpc[w] = "write" /\ wpc'[w] = "dead"

\* C12: a failed device write mid-ramp leaves _current_voltage at the last
\* value whose device write succeeded: after the failing step its counts are
\* the counts last passed to the DAC, or it is 0.0 when nothing was written.
C12_FailedWriteKeepsLastApplied ==
  [][\A w \in Workers :
       WriteFailStep(w) =>
         IF dac = NoWrite THEN current_voltage' = 0
         ELSE UpdateDacCounts(span, current_voltage') = dac]_vars

\* the step in which on_message takes a payload up to the _start_fade call
MessageStep == mpc = "idle" /\ mpc' = "sf_lock" /\ ~inHandler
\* a state command whose brightness line is absent or not an integer
NoBrightnessLine(p) == p.kind = "state" /\ p.line # "int"

\* C13 as stated: a state command without a usable brightness line sets
\* brightness to the last known brightness (the last brightness above 0 the
\* light had, 255 if none) when the state is ON and to 0 when it is OFF; so
\* ON b, OFF, bare ON turns the light on at b.
C13_DefaultLastKnown ==
  [][(MessageStep /\ NoBrightnessLine(payload')) =>
       /\ Upper(payload'.token) = "ON" => (is_on' /\ brightness' = lastKnown)
       /\ Upper(payload'.token) = "OFF" => (~is_on' /\ brightness' = 0)]_vars

\* C13 amended: a state command without a usable brightness line is carried
\* out: ON turns the light on at the stored brightness when that is above 0
\* and at 255 when it is 0, as it is after any OFF; OFF turns it off with
\* brightness 0.
C13_DefaultStoredOr255 ==
  [][(MessageStep /\ NoBrightnessLine(payload')) =>
       /\ Upper(payload'.token) = "ON" =>
            /\ is_on'
            /\ brightness > 0 => brightness' = brightness
            /\ brightness = 0 => brightness' = 255
            /\ sfArg' = brightness_to_voltage(span, brightness')
       /\ Upper(payload'.token) = "OFF" =>
            (~is_on' /\ brightness' = 0 /\ sfArg' = 0)]_vars

\* a bare ON as third command, after a command that turned the light on and
\* one that turned it off, has set brightness 255
C13_Witness ==
  /\ mpc = "sf_lock" /\ ncmd = 3 /\ nworkers = 1 /\ target_voltage = 0
  /\ payload = StateCmd("ON", "absent", 0)
  /\ is_on /\ brightness = 255 /\ sfArg = span

\* C14: state publication format: when on_message has returned there has
\* been one state publish per command, and every published payload has two
\* lines, the state token ON or OFF and the integer brightness.
C14_TwoLinePublish ==
  /\ (mpc = "idle" /\ ~inHandler) => npub = ncmd
  /\ npub > 0 =>
       /\ Len(published) = 2
       /\ published[1] \in {"ON", "OFF"}
       /\ published[2] \in 0..255

\* on_message and the set_light_state it called have returned
Handled == mpc = "idle" /\ ~inHandler /\ ncmd >= 1

\* C15: bare-integer commands.  The payload 0 and the payload OFF leave the
\* same is_on, brightness, requested target and published payload: off,
\* 0, 0.0 V and OFF; a bare integer n other than 0 sets is_on and sets
\* brightness to n clamped to 0..255, whatever the state before.
C15_BareInteger ==
  Handled =>
    /\ payload \in {BareInt(0), StateCmd("OFF", "absent", 0)} =>
         /\ ~is_on /\ brightness = 0
         /\ sfArg = 0 /\ target_voltage = 0
         /\ published = <<"OFF">>
    /\ (payload.kind = "int" /\ payload.n # 0) =>
         /\ is_on
         /\ brightness = Max(0, Min(255, payload.n))

\* the payload 0 has turned off a light that a command before had turned on
C15_Witness ==
  /\ Handled /\ payload = BareInt(0) /\ ncmd >= 2 /\ nworkers >= 1
  /\ ~is_on /\ brightness = 0 /\ published = <<"OFF">>

\* C16: cancellation is never lost: the stop event that _start_fade set for
\* the running worker is not cleared while that worker is still in its loop
\* without having seen the event at the loop head.
C16_CancellationNotLost ==
  [][(fade_stop_event /\ ~fade_stop_event') =>
       ~(IsAlive(fade_thread) /\ wpc[fade_thread] \in {"check", "write"})]_vars

\* C17: state and device stay in step: whenever the lock is free, the last
\* counts passed to the DAC are the counts conversion of _current_voltage
\* (nothing written yet while _current_voltage is still its initial 0.0).
C17_StateDeviceInStep ==
  fade_lock = Free =>
    LET v == current_voltage
        snapped == IF 0 < v /\ 2 * v < TicksPerVolt THEN 0
                   ELSE IF 0 < v /\ v < TicksPerVolt THEN TicksPerVolt
                   ELSE v
    IN  \/ dac = NoWrite /\ v = 0
        \/ dac = Max(0, Min(RESOLUTION_15_BIT, CountsOf(snapped)))

\* the ramp of worker w is under way: it has taken its snapshot and has not
\* left its loop
InRamp(w) == wpc[w] \in {"check", "write"}

\* C18: monotone ramp path.  While the ramp of a worker is under way, every
\* write to _current_voltage, whichever thread makes it, moves it toward
\* that ramp's target (never back) and leaves it between the ramp's start
\* and target; the worker's own write at step i of n is
\* start + (target - start) * i / n.
C18_MonotonePath ==
  [][\A w \in Workers :
       (InRamp(w) /\ current_voltage' # current_voltage) =>
         /\ wtarget[w] >= wstart[w] =>
              /\ current_voltage' >= current_voltage
              /\ wstart[w] <= current_voltage' /\ current_voltage' <= wtarget[w]
         /\ wtarget[w] < wstart[w] =>
              /\ current_voltage' <= current_voltage
              /\ wtarget[w] <= current_voltage' /\ current_voltage' <= wstart[w]
         /\ wstep'[w] = wstep[w] + 1 =>
              current_voltage' =
                wstart[w] + TruncDiv((wtarget[w] - wstart[w]) * wstep[w], wnum[w])]_vars

\* duration * span of the ramp of worker w, in ms * ticks, after the clamp
\* to [0.05 s, 5.0 s]
ClampedDuration(w) ==
  Max(MinFadeMs * span,
      Min(MaxFadeMs * span, fade_duration * Abs(wtarget[w] - wstart[w])))
\* worker w has its num_steps
HasSteps(w) == wpc[w] \in {"check", "write", "final"}

\* C19 as stated: the number of steps of a ramp is
\* max(1, round(duration / 0.02 s)), duration being
\* base_duration * |target - start| / span clamped to [0.05 s, 5.0 s].
C19_StepCountRounded ==
  \A w \in Workers :
    HasSteps(w) =>
      wnum[w] = Max(1, RoundHalfEven(ClampedDuration(w), UpdateIntervalMs * span))

\* C19 amended: the number of steps n is duration / 0.02 s rounded down,
\* n * 20 ms <= duration < (n + 1) * 20 ms, so 2 <= n <= 250; an uncancelled
\* ramp makes its interpolated writes for i = 0..n, one per 20 ms period, and
\* leaves its loop with i = n + 1.
C19_StepCountFloor ==
  \A w \in Workers :
    HasSteps(w) =>
      /\ wnum[w] * UpdateIntervalMs * span <= ClampedDuration(w)
      /\ ClampedDuration(w) < (wnum[w] + 1) * UpdateIntervalMs * span
      /\ 2 <= wnum[w] /\ wnum[w] <= 250
      /\ wpc[w] = "write" => wstep[w] \in 0..wnum[w]
      /\ (wpc[w] = "final" /\ ~fade_stop_event) => wstep[w] = wnum[w] + 1

\* a ramp of 0.275 s, 13.75 periods, has made its 14 writes i = 0..13
C19_Witness ==
  /\ span = 10 * TicksPerVolt /\ fade_duration = DefaultFadeMs
  /\ wpc[1] = "final" /\ wstart[1] = 0 /\ wtarget[1] = 1397
  /\ wnum[1] = 13 /\ wstep[1] = 14

\* brightness is in range, the target handed to _start_fade is 0.0 or in
\* [1.0, span] and non-zero exactly when is_on and brightness > 0, and the
\* published token is ON exactly then
LightStateOk ==
  /\ brightness \in 0..255
  /\ sfArg = 0 \/ (TicksPerVolt <= sfArg /\ sfArg <= span)
  /\ (sfArg # 0) = (is_on /\ brightness > 0)
  /\ Handled => (published[1] = "ON") = (sfArg # 0)

\* C20: the LightState invariant.  After any sequence of payloads, malformed
\* ones included, brightness is in 0..255, the target handed to the fade
\* engine is 0.0 or in [1.0, span], and the published token is ON exactly
\* when that target is non-zero (is_on and brightness > 0); a command whose
\* state token is neither ON nor OFF leaves is_on and brightness unchanged.
C20_LightStateInvariant ==
  /\ [](ncmd >= 1 => LightStateOk)
  /\ [][(MessageStep /\ payload'.kind = "state"
          /\ Upper(payload'.token) \notin {"ON", "OFF"}) =>
           (is_on' = is_on /\ brightness' = brightness)]_vars

\* an unrecognized token with brightness 300 has left the light on at 128
C20_Witness ==
  /\ Handled /\ payload = StateCmd("TOGGLE", "int", 300)
  /\ is_on /\ brightness = 128 /\ published = <<"ON", 128>>
====
